---- MODULE Spec2Model ----
(***************************************************************************)
(* A model of the hopsfs-benchmark harness: the four scenario functions of *)
(* experiment.py (test_files_s3, test_large_files, test_small_files,       *)
(* test_files_local_copy) and the multi-scenario runner of                 *)
(* run_benchmark.py.                                                       *)
(*                                                                         *)
(* Spec       one scenario function, from its first statement to its       *)
(*            return or to the exception that leaves it, with the worker   *)
(*            pool of each timed phase and the file system it acts on.     *)
(* RunnerSpec main() of run_benchmark.py: the selected groups, their       *)
(*            scenarios and the repeated runs of each; a scenario is its   *)
(*            outcome (the speeds it returns, or the exception it raises). *)
(* GeneratorSpec one call of write_large_file or write_small_file, byte     *)
(*            counts and all.                                              *)
(***************************************************************************)
EXTENDS Integers, Sequences, FiniteSets, TLC

\* ------------------------------------------------------------------ bounds
MaxFiles == 3
MaxPar == 2
MaxRuns == 3
MaxChunks == 3
MaxSize == 2       \* size_kb / size_gb of the timed scenarios
MaxClock == 3      \* readings of the clock the timed scenarios tell apart
MaxSubdirs == 2    \* full subdirectories test_files_local_copy stages, and one more begun

\* --------------------------------------------------------- program constants
files_per_subdir == 100
chunk_size == 10 * 1024 * 1024

Kinds == {"s3", "large", "small", "hdfs"}

VARIABLES
    kind,             \* which scenario function runs
    num_files,        \* num_files / total_files
    parallel_writes,  \* parallel_writes (test_large_files: the pool has num_files workers)
    pc,               \* the position of the scenario's main thread
    phase,            \* "none", "write" or "read": the timed phase in hand
    idx,              \* the loop variable i of the loop the main thread is in
    fs,               \* the files, directories and objects that exist
    subdirs,          \* test_files_local_copy: the list subdirs, as paths
    futures,          \* the executor's futures: item -> new | queued | running | ok | err
    finished,         \* as_completed: the futures found done when it was called
    waiter,           \* as_completed: waiter.finished_futures, in completion order
    yielded,          \* the futures the as_completed loop has taken so far
    caught,           \* the item whose exception future.result() raised, or -1
    first_failed,     \* the first item to fail in completion order, or -1
    start_time,       \* the reading of time.time() the running timer started at, or -1
    size,             \* the parameter size_kb (test_large_files: size_gb)
    clock,            \* what time.time() would return now
    readings,         \* the values time.time() has returned, in the order of the calls
    speed,            \* speed_mbs (test_large_files: speed), <<>> before it is computed
    read_speed,       \* read_speed_mbs (test_large_files: read_speed), <<>> before
    attempted,        \* the cleanup steps executed so far
    injected,         \* the cleanup steps the environment made fail
    error,            \* "none", or what raised out of the scenario
    result,           \* "none", or "speeds" once the scenario has returned its dict
    prepare_outcome,  \* what became of the target root's creation: "none" (not tried yet),
                      \* "created", "existed" (already there: success) or "failed"
    commands,         \* the subprocess.run calls of the two hdfs copy functions so far,
                      \* each <<the hdfs dfs verb, its -t value, result.returncode>>
    stderr,           \* result.stderr of the copy command that failed, or ""
    message,          \* the process output in the text of the exception raised, or ""
    at_error,         \* the futures as they were when future.result() raised
    selected,         \* runner: the test groups chosen on the command line
    runs,             \* runner: --runs
    rpc,              \* runner: the position of main()
    group,            \* runner: index of the group in hand
    test,             \* runner: index of the test of the group in hand
    run,              \* runner: the iterations run_test_multiple_times has completed
    calls,            \* runner: the calls of test_func this run_test_multiple_times has made
    aggregate,        \* runner: <<the dict run_test_multiple_times has just returned>>, or <<>>
    all_write_speeds, \* runner: the write samples of the test in hand
    all_read_speeds,  \* runner: the read samples of the test in hand
    group_results,    \* runner: the keys of results, the dict of the group in hand
    all_results,      \* runner: the keys of all_results of main()
    executed,         \* runner: the scenarios called so far, <<group, test>>
    failed_at,        \* runner: the scenario that raised, or <<0, 0>>
    printed,          \* runner: what main() has reported
    exit_code,        \* runner: -1 while running, else the process's status
    csv_files,        \* runner: the CSV files write_results_to_csv has written
    generator,        \* generator: "write_large_file" or "write_small_file"
    gpc,              \* generator: the position of the call
    size_bytes,       \* generator: the size asked for, in bytes
    written,          \* generator: the running total of write_large_file
    to_write,         \* generator: the size of the chunk last written
    file_size         \* generator: the length of the file at file_path

cfgVars == <<kind, num_files, parallel_writes, size>>
poolVars == <<futures, finished, waiter, yielded, caught, first_failed>>
cleanVars == <<attempted, injected>>
copyVars == <<commands, stderr, message>>
traceVars == <<prepare_outcome, copyVars, at_error>>
timeVars == <<clock, readings, speed, read_speed>>
svars == <<cfgVars, timeVars, subdirs, pc, phase, idx, fs, poolVars, start_time, cleanVars, error, result, traceVars>>
rvars == <<selected, runs, rpc, group, test, run, calls, aggregate, all_write_speeds,
           all_read_speeds, group_results, all_results, executed, failed_at, printed, exit_code,
           csv_files>>
gvars == <<generator, gpc, size_bytes, written, to_write, file_size>>
vars == <<svars, rvars, gvars>>

Items == 0 .. (num_files - 1)

\* ------------------------------------------------------------------ floats
\* A float the scenarios compute is kept as the exact fraction <<p, q>>, p / q.
Whole(n) == <<n, 1>>
Over(x, d) == <<x[1], x[2] * d>>        \* x / d
Times(x, k) == <<x[1] * k, x[2]>>       \* x * k, k * x
Same(x, y) == x[1] * y[2] = y[1] * x[2] \* x == y

\* The timer of a phase is running.
TimerRunning == start_time >= 0

\* total_mb = num_files * size_mb with size_mb = size_kb / 1024; test_large_files:
\* total_gb = num_files * size_gb.
total ==
    IF kind = "large" THEN Whole(num_files * size)
    ELSE Times(Over(Whole(size), 1024), num_files)

\* The pool size of the scenario's executors.
max_workers == IF kind = "large" THEN num_files ELSE parallel_writes

\* How many thread directories the scenario makes.
NumThreadDirs == IF kind = "large" THEN num_files ELSE parallel_writes

\* ------------------------------------------------------------- file system
\* A path is <<what, a, b>>.
TempDir == <<"temp_dir", 0, 0>>
NoDir == <<"/", 0, 0>>
SubDir(k) == <<"subdir", k, 0>>
SrcFile(i) == <<"src", i, 0>>
OutputDir == <<"output_dir", 0, 0>>
ThreadDir(t) == <<"thread", t, 0>>
DstFile(t, i) == <<"dst", t, i>>
Object(i) == <<"object", i, 0>>
RemoteFile(i) == <<"remote", i, 0>>
DownloadDir == <<"download_dir", 0, 0>>
DownloadedFile(i) == <<"downloaded", i, 0>>
\* A file or object of somebody else, in the target root and in the staging root.
ForeignInTarget == <<"foreign", 0, 0>>
ForeignInStaging == <<"foreign", 1, 0>>

\* The directory (or bucket) a path lies in.
Parent(p) ==
    CASE p[1] = "src" -> IF kind = "hdfs" THEN SubDir(p[2] \div files_per_subdir) ELSE TempDir
      [] p[1] = "subdir" -> TempDir
      [] p[1] = "thread" -> OutputDir
      [] p[1] = "dst" -> ThreadDir(p[2])
      [] p[1] = "object" -> OutputDir
      [] p[1] = "remote" -> OutputDir
      [] p[1] = "downloaded" -> DownloadDir
      [] p[1] = "foreign" -> IF p[2] = 0 THEN OutputDir ELSE TempDir
      [] OTHER -> NoDir

Children(d, files) == {p \in files : Parent(p) = d}

RECURSIVE Under(_, _)
\* Everything below directory d.
Under(d, files) ==
    LET c == Children(d, files)
    IN  c \cup UNION {Under(x, files \ c) : x \in c}

\* os.rmdir, s3 delete_bucket: only an existing, empty directory goes.
CanRmdir(d) == d \in fs /\ Children(d, fs) = {}

\* ------------------------------------------------------------------- Init
\* The scenario is called with any item count, zero included: no caller and no
\* scenario checks it. test_large_files has no parallel_writes (its pools have
\* num_files workers); test_files_s3 and test_files_local_copy take num_files for a
\* parallel_writes of None. The staging root and the target root (bucket, output
\* directory) may be there before the scenario starts, or not, and with the output
\* directory the first of its thread directories; they are empty.
ScenarioInit ==
    /\ kind \in Kinds
    /\ num_files \in 0 .. MaxFiles
    /\ parallel_writes \in
          CASE kind = "large" -> {num_files}
            [] kind = "small" -> 1 .. MaxPar
            [] OTHER -> (1 .. MaxPar) \cup {num_files}
    /\ size = 1
    /\ pc = "makedirs"
    /\ phase = "none"
    /\ idx = 0
    /\ subdirs = <<>>
    /\ fs \in {f \in SUBSET {TempDir, OutputDir, ThreadDir(0)} :
                    ThreadDir(0) \in f =>
                        /\ OutputDir \in f
                        /\ kind \in {"large", "small"}
                        /\ NumThreadDirs >= 1}
    /\ futures = [i \in Items |-> "new"]
    /\ finished = {}
    /\ waiter = <<>>
    /\ yielded = {}
    /\ caught = -1
    /\ first_failed = -1
    /\ start_time = -1
    /\ clock = 0
    /\ readings = <<>>
    /\ speed = <<>>
    /\ read_speed = <<>>
    /\ attempted = {}
    /\ injected = {}
    /\ error = "none"
    /\ result = "none"
    /\ prepare_outcome = "none"
    /\ commands = <<>>
    /\ stderr = ""
    /\ message = ""
    /\ at_error = [i \in Items |-> "new"]

RunnerIdle ==
    /\ selected = {}
    /\ runs = 1
    /\ rpc = "idle"
    /\ group = 0
    /\ test = 0
    /\ run = 0
    /\ calls = 0
    /\ aggregate = <<>>
    /\ all_write_speeds = <<>>
    /\ all_read_speeds = <<>>
    /\ group_results = {}
    /\ all_results = {}
    /\ executed = {}
    /\ failed_at = <<0, 0>>
    /\ printed = {}
    /\ exit_code = -1
    /\ csv_files = {}

\* No generator call is modelled byte by byte.
GeneratorIdle ==
    /\ generator = "write_small_file"
    /\ gpc = "idle"
    /\ size_bytes = 0
    /\ written = 0
    /\ to_write = 0
    /\ file_size = 0

Init == ScenarioInit /\ RunnerIdle /\ GeneratorIdle

\* An exception leaves the scenario function: its frame, timer included, is gone.
Raise(what) ==
    /\ pc' = "failed"
    /\ error' = what
    /\ start_time' = -1

\* ---------------------------------------------------------------- staging
\* os.makedirs(temp_dir, exist_ok=True)
MakeTempDir ==
    /\ pc = "makedirs"
    /\ \/ /\ fs' = fs \cup {TempDir}
          /\ pc' = "stage"
          /\ UNCHANGED <<error, start_time>>
       \/ /\ Raise("generation")
          /\ UNCHANGED fs
    /\ UNCHANGED <<rvars, gvars, traceVars, cfgVars, timeVars, subdirs, phase, idx, poolVars, cleanVars, result>>

\* The elements of a list.
Range(list) == {list[k] : k \in 1 .. Len(list)}

\* subdir_path of item i, and the list subdirs once the item's subdirectory is in it.
subdir_path(i) == SubDir(i \div files_per_subdir)
Recorded(i) ==
    IF kind # "hdfs" \/ subdir_path(i) \in Range(subdirs) THEN subdirs
    ELSE Append(subdirs, subdir_path(i))

\* StageFile with a try/except around the item's creation: the loop goes on to the
\* next item.
StageFile_skips_failed_item ==
    /\ pc = "stage"
    /\ idx < num_files
    /\ LET sub == IF kind = "hdfs" THEN {subdir_path(idx)} ELSE {}
       IN  \/ /\ fs' = fs \cup sub \cup {SrcFile(idx)}
              /\ UNCHANGED error
           \/ /\ fs' = fs \cup sub
              /\ error' = "generation"
    /\ subdirs' = Recorded(idx)
    /\ idx' = idx + 1
    /\ UNCHANGED <<rvars, gvars, traceVars, cfgVars, timeVars, pc, phase, poolVars, start_time, cleanVars,
                   result>>

\* StageFile without the test `subdir_path not in subdirs`: the subdirectory is
\* appended for every item.
StageFile_appends_every_time ==
    /\ pc = "stage"
    /\ idx < num_files
    /\ LET sub == IF kind = "hdfs" THEN {subdir_path(idx)} ELSE {}
       IN  /\ fs' = fs \cup sub \cup {SrcFile(idx)}
           /\ subdirs' = IF kind = "hdfs" THEN Append(subdirs, subdir_path(idx)) ELSE subdirs
    /\ idx' = idx + 1
    /\ UNCHANGED <<rvars, gvars, traceVars, cfgVars, timeVars, pc, phase, poolVars, start_time, cleanVars,
                   error, result>>

\* One iteration of the pre-creation loop: the subdirectory (hdfs), made and put in
\* subdirs if it is not in the list yet, then the file. The iteration may raise
\* (disk full, permission denied): in os.makedirs, with nothing made, or in the
\* file's creation, with the file missing or there, cut short.
StageFile ==
    /\ pc = "stage"
    /\ idx < num_files
    /\ LET sub == IF kind = "hdfs" THEN {subdir_path(idx)} ELSE {}
       IN  \/ /\ fs' = fs \cup sub \cup {SrcFile(idx)}
              /\ subdirs' = Recorded(idx)
              /\ idx' = idx + 1
              /\ UNCHANGED <<pc, error, start_time>>
           \/ /\ Raise("generation")
              /\ Recorded(idx) # subdirs
              /\ UNCHANGED <<fs, subdirs, idx>>
           \/ /\ Raise("generation")
              /\ fs' \in {fs \cup sub, fs \cup sub \cup {SrcFile(idx)}}
              /\ subdirs' = Recorded(idx)
              /\ UNCHANGED idx
    /\ UNCHANGED <<rvars, gvars, traceVars, cfgVars, timeVars, phase, poolVars, cleanVars, result>>

StageDone ==
    /\ pc = "stage"
    /\ idx = num_files
    /\ pc' = "prepare"
    /\ idx' = 0
    /\ UNCHANGED <<rvars, gvars, traceVars, cfgVars, timeVars, subdirs, phase, fs, poolVars, start_time, cleanVars, error, result>>

\* ------------------------------------------------------------- preparation
\* os.makedirs(d, exist_ok=True), hdfs dfs -mkdir -p d, and create_bucket with its
\* except BucketAlreadyOwnedByYou: pass, when they succeed: d is there afterwards,
\* whether it was there before or not.
makedirs(d, files) == files \cup {d}

\* What a successful creation of the target root found.
RootOutcome == IF OutputDir \in fs THEN "existed" ELSE "created"

\* test_files_s3: the client, then create_bucket. The bucket is created, or
\* BucketAlreadyOwnedByYou passes; any other exception is printed as a note and
\* the scenario goes on all the same.
CreateBucket ==
    /\ pc = "prepare"
    /\ kind = "s3"
    /\ \/ /\ fs' = makedirs(OutputDir, fs)
          /\ prepare_outcome' = RootOutcome
       \/ /\ prepare_outcome' = "failed"
          /\ UNCHANGED fs
    /\ pc' = "timer"
    /\ phase' = "write"
    /\ UNCHANGED <<rvars, gvars, copyVars, at_error, cfgVars, timeVars, subdirs, idx, poolVars, start_time, cleanVars, error, result>>

\* MakeOutputDir as os.makedirs(output_dir) without exist_ok: an output directory
\* that is there is an error.
MakeOutputDir_not_exist_ok ==
    /\ pc = "prepare"
    /\ kind \in {"large", "small"}
    /\ prepare_outcome' = RootOutcome
    /\ IF OutputDir \in fs
          THEN /\ Raise("prepare")
               /\ UNCHANGED fs
          ELSE /\ fs' = makedirs(OutputDir, fs)
               /\ pc' = "thread_dirs"
               /\ UNCHANGED <<error, start_time>>
    /\ UNCHANGED <<rvars, gvars, copyVars, at_error, cfgVars, timeVars, subdirs, phase, idx, poolVars, cleanVars, result>>

\* test_large_files, test_small_files: os.makedirs(output_dir, exist_ok=True)
MakeOutputDir ==
    /\ pc = "prepare"
    /\ kind \in {"large", "small"}
    /\ \/ /\ fs' = makedirs(OutputDir, fs)
          /\ prepare_outcome' = RootOutcome
          /\ pc' = "thread_dirs"
          /\ UNCHANGED <<error, start_time>>
       \/ /\ Raise("prepare")
          /\ prepare_outcome' = "failed"
          /\ UNCHANGED fs
    /\ UNCHANGED <<rvars, gvars, copyVars, at_error, cfgVars, timeVars, subdirs, phase, idx, poolVars, cleanVars, result>>

\* One iteration of the thread-directory loop.
MakeThreadDir ==
    /\ pc = "thread_dirs"
    /\ idx < NumThreadDirs
    /\ \/ /\ fs' = makedirs(ThreadDir(idx), fs)
          /\ idx' = idx + 1
          /\ UNCHANGED <<pc, error, start_time, prepare_outcome>>
       \/ /\ Raise("prepare")
          /\ prepare_outcome' = "failed"
          /\ UNCHANGED <<fs, idx>>
    /\ UNCHANGED <<rvars, gvars, copyVars, at_error, cfgVars, timeVars, subdirs, phase, poolVars, cleanVars, result>>

ThreadDirsDone ==
    /\ pc = "thread_dirs"
    /\ idx = NumThreadDirs
    /\ pc' = "timer"
    /\ phase' = "write"
    /\ idx' = 0
    /\ UNCHANGED <<rvars, gvars, traceVars, cfgVars, timeVars, subdirs, fs, poolVars, start_time, cleanVars, error, result>>

\* test_files_local_copy: hdfs dfs -mkdir -p output_dir; a non-zero status raises.
HdfsMkdir ==
    /\ pc = "prepare"
    /\ kind = "hdfs"
    /\ \/ /\ fs' = makedirs(OutputDir, fs)
          /\ prepare_outcome' = RootOutcome
          /\ pc' = "timer"
          /\ phase' = "write"
          /\ UNCHANGED <<error, start_time>>
       \/ /\ Raise("prepare")
          /\ prepare_outcome' = "failed"
          /\ UNCHANGED <<fs, phase>>
    /\ UNCHANGED <<rvars, gvars, copyVars, at_error, cfgVars, timeVars, subdirs, idx, poolVars, cleanVars, result>>

\* MakeDownloadDir with start_time taken before the directory is made.
MakeDownloadDir_timed ==
    /\ pc = "download_dir"
    /\ fs' = fs \cup {DownloadDir}
    /\ pc' = "timer"
    /\ start_time' = clock
    /\ readings' = Append(readings, clock)
    /\ UNCHANGED <<rvars, gvars, traceVars, cfgVars, clock, speed, read_speed, subdirs, phase, idx, poolVars, cleanVars, error, result>>

\* test_files_local_copy: os.makedirs(download_dir, exist_ok=True), after the write
\* phase and before the read phase's start_time.
MakeDownloadDir ==
    /\ pc = "download_dir"
    /\ \/ /\ fs' = fs \cup {DownloadDir}
          /\ pc' = "timer"
          /\ UNCHANGED <<error, start_time>>
       \/ /\ Raise("prepare")
          /\ UNCHANGED fs
    /\ UNCHANGED <<rvars, gvars, traceVars, cfgVars, timeVars, subdirs, phase, idx, poolVars, cleanVars, result>>

\* ------------------------------------------------------------ timed phases
\* StartTimer with one start_time for both phases: the read phase keeps the write
\* phase's.
StartTimer_once ==
    /\ pc = "timer"
    /\ readings' = Append(readings, clock)
    /\ IF kind # "hdfs" /\ max_workers <= 0
          THEN Raise("max_workers")
          ELSE /\ start_time' = IF phase = "read" THEN readings[1] ELSE clock
               /\ pc' = IF kind = "hdfs" THEN "batch" ELSE "submit"
               /\ UNCHANGED error
    /\ idx' = 0
    /\ futures' = [i \in Items |-> "new"]
    /\ finished' = {}
    /\ waiter' = <<>>
    /\ yielded' = {}
    /\ UNCHANGED <<rvars, gvars, traceVars, cfgVars, clock, speed, read_speed, subdirs, phase, fs,
                   caught, first_failed, cleanVars, result>>

\* start_time = time.time(); the pooled scenarios then enter the with block of a new
\* ThreadPoolExecutor with a new futures list. ThreadPoolExecutor(max_workers=0)
\* raises ValueError.
StartTimer ==
    /\ pc = "timer"
    /\ readings' = Append(readings, clock)
    /\ IF kind # "hdfs" /\ max_workers <= 0
          THEN Raise("max_workers")
          ELSE /\ start_time' = clock
               /\ pc' = IF kind = "hdfs" THEN "batch" ELSE "submit"
               /\ UNCHANGED error
    /\ idx' = 0
    /\ futures' = [i \in Items |-> "new"]
    /\ finished' = {}
    /\ waiter' = <<>>
    /\ yielded' = {}
    /\ UNCHANGED <<rvars, gvars, traceVars, cfgVars, clock, speed, read_speed, subdirs, phase, fs,
                   caught, first_failed, cleanVars, result>>

\* futures.append(executor.submit(...)) for item idx.
Submit ==
    /\ pc = "submit"
    /\ idx < num_files
    /\ futures' = [futures EXCEPT ![idx] = "queued"]
    /\ idx' = idx + 1
    /\ UNCHANGED <<rvars, gvars, traceVars, cfgVars, timeVars, subdirs, pc, phase, fs, finished, waiter, yielded, caught,
                   first_failed, start_time, cleanVars, error, result>>

Settled(i) == futures[i] \in {"ok", "err"}

\* AsCompleted with no as_completed loop and no with block: the dispatched work is
\* left to itself.
AsCompleted_fire_and_forget ==
    /\ pc = "submit"
    /\ idx = num_files
    /\ pc' = "stop"
    /\ UNCHANGED <<rvars, gvars, traceVars, cfgVars, timeVars, subdirs, phase, idx, fs, poolVars, start_time, cleanVars,
                   error, result>>

\* for future in as_completed(futures): the call takes the futures that are done.
AsCompleted ==
    /\ pc = "submit"
    /\ idx = num_files
    /\ finished' = {i \in Items : Settled(i)}
    /\ waiter' = <<>>
    /\ pc' = "wait"
    /\ UNCHANGED <<rvars, gvars, traceVars, cfgVars, timeVars, subdirs, phase, idx, fs, futures, yielded, caught, first_failed,
                   start_time, cleanVars, error, result>>

Running == {i \in Items : futures[i] = "running"}
Queued == {i \in Items : futures[i] = "queued"}

\* The item a free worker takes: the executor's work queue is first in, first out.
NextQueued == CHOOSE i \in Queued : \A j \in Queued : i <= j

\* StartOp with a thread for every work item, whatever max_workers says.
StartOp_unbounded ==
    /\ Queued # {}
    /\ futures' = [futures EXCEPT ![NextQueued] = "running"]
    /\ UNCHANGED <<rvars, gvars, traceVars, cfgVars, timeVars, subdirs, pc, phase, idx, fs, finished, waiter, yielded, caught,
                   first_failed, start_time, cleanVars, error, result>>

\* A worker thread takes the next work item; the pool has max_workers threads.
StartOp ==
    /\ Queued # {}
    /\ Cardinality(Running) < max_workers
    /\ futures' = [futures EXCEPT ![NextQueued] = "running"]
    /\ UNCHANGED <<rvars, gvars, traceVars, cfgVars, timeVars, subdirs, pc, phase, idx, fs, finished, waiter, yielded, caught,
                   first_failed, start_time, cleanVars, error, result>>

\* Destination with a file name that leaves out the item's index: the items of a
\* thread directory, and all objects of the bucket, share one name.
Destination_without_index(i) ==
    IF kind = "s3" THEN Object(0) ELSE DstFile(IF kind = "large" THEN i ELSE i % parallel_writes, 0)

\* Where item i is written, read and deleted.
thread_id(i) == IF kind = "large" THEN i ELSE i % parallel_writes
Destination(i) == IF kind = "s3" THEN Object(i) ELSE DstFile(thread_id(i), i)

\* file_prefix of test_files_s3, assigned once; the mount scenarios write the
\* prefix out at each place.
file_prefix == IF size >= 100 * 1024 THEN "large_file" ELSE "small_file"

\* The file name, less the index, the write phase gives the destination of an item.
WriteName ==
    CASE kind = "s3" -> file_prefix
      [] kind = "large" -> "large_file"
      [] OTHER -> "small_file"

\* ReadTarget with the items dealt to the thread directories in blocks, not round-robin.
ReadTarget_in_blocks(i) ==
    IF kind = "s3" THEN Object(i)
    ELSE DstFile(IF kind = "large" THEN i ELSE i \div parallel_writes, i)

\* What the read phase reads for item i: object_key, and file_path in
\* target_dirs[i] (test_large_files) or in target_dirs[thread_id] with
\* thread_id = i % parallel_writes, computed anew; and its file name less the index.
ReadTarget(i) ==
    IF kind = "s3" THEN Object(i)
    ELSE DstFile(IF kind = "large" THEN i ELSE i % parallel_writes, i)
ReadName ==
    CASE kind = "s3" -> file_prefix
      [] kind = "large" -> "large_file"
      [] OTHER -> "small_file"

\* What cleanup deletes for item i: the Key of delete_object, the path of
\* os.remove, thread_id computed once more; and its file name less the index.
CleanupTarget(i) ==
    IF kind = "s3" THEN Object(i)
    ELSE DstFile(IF kind = "large" THEN i ELSE i % parallel_writes, i)
CleanupName ==
    CASE kind = "s3" -> file_prefix
      [] kind = "large" -> "large_file"
      [] OTHER -> "small_file"

\* What a finished future tells the as_completed waiter, once it is installed.
Notify(i) == IF pc = "wait" THEN Append(waiter, i) ELSE waiter

\* copy_file / upload_file_to_s3 / read_file / download_file_from_s3 of item i ends:
\* it returns, or it raises (the source or destination is missing, or I/O fails).
FinishOp ==
    \E i \in Running :
        /\ \/ /\ IF phase = "write"
                    THEN SrcFile(i) \in fs /\ Parent(Destination(i)) \in fs
                    ELSE ReadTarget(i) \in fs
              /\ futures' = [futures EXCEPT ![i] = "ok"]
              /\ fs' = IF phase = "write" THEN fs \cup {Destination(i)} ELSE fs
              /\ UNCHANGED first_failed
           \/ /\ futures' = [futures EXCEPT ![i] = "err"]
              /\ first_failed' = IF first_failed = -1 THEN i ELSE first_failed
              /\ UNCHANGED fs
        /\ waiter' = Notify(i)
        /\ UNCHANGED <<rvars, gvars, traceVars, cfgVars, timeVars, subdirs, pc, phase, idx, finished, yielded, caught,
                       start_time, cleanVars, error, result>>

\* The future the as_completed loop yields next: those found done at the call first,
\* in no particular order (a set), then the others as they complete.
Yieldable ==
    IF finished \ yielded # {} THEN finished \ yielded
    ELSE IF waiter # <<>> THEN {Head(waiter)}
    ELSE {}

\* TakeResult without the call of future.result(): no exception is re-raised.
TakeResult_ignores_error ==
    /\ pc = "wait"
    /\ \E i \in Yieldable :
        /\ yielded' = yielded \cup {i}
        /\ waiter' = IF i \in finished THEN waiter ELSE Tail(waiter)
        /\ pc' = IF yielded' = Items THEN "join" ELSE "wait"
    /\ UNCHANGED <<rvars, gvars, traceVars, cfgVars, timeVars, subdirs, phase, idx, fs, futures, finished, caught, first_failed,
                   start_time, cleanVars, error, result>>

\* future.result() of the next future: it returns, or re-raises the item's exception,
\* which leaves the loop for the with block's exit.
TakeResult ==
    /\ pc = "wait"
    /\ \E i \in Yieldable :
        /\ yielded' = yielded \cup {i}
        /\ waiter' = IF i \in finished THEN waiter ELSE Tail(waiter)
        /\ IF futures[i] = "err"
              THEN /\ caught' = i
                   /\ at_error' = futures
                   /\ pc' = "join"
              ELSE /\ pc' = IF yielded' = Items THEN "join" ELSE "wait"
                   /\ UNCHANGED <<caught, at_error>>
    /\ UNCHANGED <<rvars, gvars, prepare_outcome, copyVars, cfgVars, timeVars, subdirs, phase, idx, fs, futures,
                   finished, first_failed, start_time, cleanVars, error, result>>

\* Shutdown as executor.shutdown(wait=False): it does not wait for the work items.
Shutdown_nowait ==
    /\ pc = "join"
    /\ IF caught # -1
          THEN /\ Raise("transfer")
               /\ UNCHANGED <<finished, waiter, yielded>>
          ELSE /\ pc' = "stop"
               /\ finished' = {}
               /\ waiter' = <<>>
               /\ yielded' = {}
               /\ UNCHANGED <<error, start_time>>
    /\ UNCHANGED <<rvars, gvars, traceVars, cfgVars, timeVars, subdirs, phase, idx, fs, futures, caught, first_failed,
                   cleanVars, result>>

\* Shutdown as executor.shutdown(wait=True, cancel_futures=True) once an exception
\* is in flight: the work items not yet started are cancelled and never run.
Shutdown_cancel_futures ==
    /\ pc = "join"
    /\ IF caught # -1
          THEN /\ Running = {}
               /\ futures' = [i \in Items |-> IF futures[i] = "queued" THEN "cancelled"
                                                ELSE futures[i]]
               /\ Raise("transfer")
               /\ UNCHANGED <<finished, waiter, yielded>>
          ELSE /\ \A i \in Items : futures[i] \in {"ok", "err"}
               /\ pc' = "stop"
               /\ finished' = {}
               /\ waiter' = <<>>
               /\ yielded' = {}
               /\ UNCHANGED <<futures, error, start_time>>
    /\ UNCHANGED <<rvars, gvars, traceVars, cfgVars, timeVars, subdirs, phase, idx, fs, caught, first_failed,
                   cleanVars, result>>

\* The with block's exit, executor.shutdown(wait=True): it returns when every work
\* item has run; then the exception in flight, if any, goes on to the caller. The
\* as_completed iterator is finished with either way.
Shutdown ==
    /\ pc = "join"
    /\ \A i \in Items : Settled(i)
    /\ IF caught # -1
          THEN /\ Raise("transfer")
               /\ UNCHANGED <<finished, waiter, yielded>>
          ELSE /\ pc' = "stop"
               /\ finished' = {}
               /\ waiter' = <<>>
               /\ yielded' = {}
               /\ UNCHANGED <<error, start_time>>
    /\ UNCHANGED <<rvars, gvars, traceVars, cfgVars, timeVars, subdirs, phase, idx, fs, futures, caught, first_failed,
                   cleanVars, result>>

\* What a failing hdfs command writes to its standard error.
Stderr == {"No such file or directory", "Permission denied"}

\* The verb of the phase's copy command.
Verb == IF phase = "write" THEN "-copyFromLocal" ELSE "-copyToLocal"

\* HdfsCopy with one command for every item.
HdfsCopy_per_item ==
    /\ pc = "batch"
    /\ commands' = commands \o [i \in 1 .. num_files |-> <<Verb, parallel_writes, 0>>]
    /\ fs' = IF phase = "write"
                THEN fs \cup {RemoteFile(i) : i \in {j \in Items : SrcFile(j) \in fs}}
                ELSE fs \cup {DownloadedFile(i) : i \in {j \in Items : RemoteFile(j) \in fs}}
    /\ pc' = "stop"
    /\ UNCHANGED <<rvars, gvars, prepare_outcome, stderr, message, at_error, cfgVars, timeVars, subdirs, phase,
                   idx, poolVars, start_time, cleanVars, error, result>>

\* HdfsCopy with an exception text that leaves result.stderr out.
HdfsCopy_without_stderr ==
    /\ pc = "batch"
    /\ \/ /\ commands' = Append(commands, <<Verb, parallel_writes, 0>>)
          /\ fs' = IF phase = "write"
                      THEN fs \cup {RemoteFile(i) : i \in {j \in Items : SrcFile(j) \in fs}}
                      ELSE fs \cup {DownloadedFile(i) : i \in {j \in Items : RemoteFile(j) \in fs}}
          /\ pc' = "stop"
          /\ UNCHANGED <<error, start_time, stderr, message>>
       \/ \E out \in Stderr :
             /\ commands' = Append(commands, <<Verb, parallel_writes, 1>>)
             /\ stderr' = out
             /\ Raise("batch")
             /\ UNCHANGED <<fs, message>>
    /\ UNCHANGED <<rvars, gvars, prepare_outcome, at_error, cfgVars, timeVars, subdirs, phase, idx, poolVars,
                   cleanVars, result>>

\* test_files_local_copy: copy_dir_to_hdfs_with_threads / copy_dir_from_hdfs_with_threads
\* runs the one hdfs dfs -copyFromLocal / -copyToLocal -t parallel_writes command of
\* the phase; on a non-zero status it raises an exception with result.stderr in its
\* text.
HdfsCopy ==
    /\ pc = "batch"
    /\ \/ /\ commands' = Append(commands, <<Verb, parallel_writes, 0>>)
          /\ fs' = IF phase = "write"
                      THEN fs \cup {RemoteFile(i) : i \in {j \in Items : SrcFile(j) \in fs}}
                      ELSE fs \cup {DownloadedFile(i) : i \in {j \in Items : RemoteFile(j) \in fs}}
          /\ pc' = "stop"
          /\ UNCHANGED <<error, start_time, stderr, message>>
       \/ \E out \in Stderr :
             /\ commands' = Append(commands, <<Verb, parallel_writes, 1>>)
             /\ stderr' = out
             /\ message' = out
             /\ Raise("batch")
             /\ UNCHANGED fs
    /\ UNCHANGED <<rvars, gvars, prepare_outcome, at_error, cfgVars, timeVars, subdirs, phase, idx, poolVars,
                   cleanVars, result>>

\* How far the clock moves between the last step and the reading of time.time() that
\* ends a phase: not at all, or on.
Elapsed == {0, 1}

\* elapsed = time.time() - start_time and the phase's speed, total / elapsed, which
\* raises ZeroDivisionError for an elapsed of zero; then the next phase.
StopTimer ==
    /\ pc = "stop"
    /\ \E passed \in Elapsed :
          LET now == clock + passed
              elapsed == now - start_time
          IN  /\ clock' = now
              /\ readings' = Append(readings, now)
              /\ IF elapsed = 0
                    THEN /\ Raise("division")
                         /\ UNCHANGED <<phase, speed, read_speed>>
                    ELSE /\ start_time' = -1
                         /\ IF phase = "write"
                               THEN /\ speed' = Over(total, elapsed)
                                    /\ phase' = "read"
                                    /\ pc' = IF kind = "hdfs" THEN "download_dir" ELSE "timer"
                                    /\ UNCHANGED read_speed
                               ELSE /\ read_speed' = Over(total, elapsed)
                                    /\ phase' = "none"
                                    /\ pc' = "cleanup"
                                    /\ UNCHANGED speed
                         /\ UNCHANGED error
    /\ idx' = 0
    /\ UNCHANGED <<rvars, gvars, traceVars, cfgVars, subdirs, fs, poolVars, cleanVars, result>>

\* ---------------------------------------------------------------- cleanup
\* Every cleanup step sits in its own try/except-pass (the hdfs rm is a
\* subprocess.run whose status nobody reads): a step that fails changes nothing
\* and the next statement runs. The environment may fail any step that would have
\* succeeded; os.rmdir and delete_bucket fail by themselves on what is not empty.
Step(what, n) == <<what, n>>

\* Cleanup begins: the first statement after the read phase's prints.
BeginCleanup ==
    /\ pc = "cleanup"
    /\ pc' = IF kind = "hdfs" THEN "rm_remote" ELSE "rm_dst"
    /\ idx' = 0
    /\ UNCHANGED <<rvars, gvars, traceVars, cfgVars, timeVars, subdirs, phase, fs, poolVars, start_time, cleanVars, error, result>>

\* The effect of one guarded deletion: `gone` leaves fs unless the step fails.
Delete(step, possible, gone) ==
    /\ attempted' = attempted \cup {step}
    /\ \/ /\ possible
          /\ fs' = fs \ gone
          /\ UNCHANGED injected
       \/ /\ possible
          /\ injected' = injected \cup {step}
          /\ UNCHANGED fs
       \/ /\ ~possible
          /\ UNCHANGED <<fs, injected>>

\* RemoveDst with the loop left at the first deletion that fails.
RemoveDst_stops_on_failure ==
    /\ pc = "rm_dst"
    /\ idx < num_files
    /\ Delete(Step("dst", idx),
              IF kind = "s3" THEN OutputDir \in fs ELSE CleanupTarget(idx) \in fs,
              {CleanupTarget(idx)})
    /\ IF fs' = fs
          THEN idx' = num_files /\ UNCHANGED pc
          ELSE IF kind = "large"
                  THEN pc' = "rm_thread" /\ UNCHANGED idx
                  ELSE idx' = idx + 1 /\ UNCHANGED pc
    /\ UNCHANGED <<rvars, gvars, traceVars, cfgVars, timeVars, subdirs, phase, poolVars, start_time, error, result>>

\* s3_client.delete_object(Key=...) / os.remove(destination of item idx)
RemoveDst ==
    /\ pc = "rm_dst"
    /\ idx < num_files
    /\ Delete(Step("dst", idx),
              IF kind = "s3" THEN OutputDir \in fs ELSE CleanupTarget(idx) \in fs,
              {CleanupTarget(idx)})
    /\ IF kind = "large"
          THEN pc' = "rm_thread" /\ UNCHANGED idx
          ELSE idx' = idx + 1 /\ UNCHANGED pc
    /\ UNCHANGED <<rvars, gvars, traceVars, cfgVars, timeVars, subdirs, phase, poolVars, start_time, error, result>>

\* RemoveDstDone with the output directory removed before the thread directories.
RemoveDstDone_root_first ==
    /\ pc = "rm_dst"
    /\ idx = num_files
    /\ pc' = "rm_root"
    /\ idx' = 0
    /\ UNCHANGED <<rvars, gvars, traceVars, cfgVars, timeVars, subdirs, phase, fs, poolVars, start_time, cleanVars, error, result>>

\* The loop over the items is over.
RemoveDstDone ==
    /\ pc = "rm_dst"
    /\ idx = num_files
    /\ pc' = IF kind = "small" THEN "rm_thread" ELSE "rm_root"
    /\ idx' = 0
    /\ UNCHANGED <<rvars, gvars, traceVars, cfgVars, timeVars, subdirs, phase, fs, poolVars, start_time, cleanVars, error, result>>

\* os.rmdir(thread directory idx): test_large_files does it right after the item's
\* file, test_small_files in a loop of its own over target_dirs.
RemoveThreadDir ==
    /\ pc = "rm_thread"
    /\ idx < NumThreadDirs
    /\ Delete(Step("thread", idx), CanRmdir(ThreadDir(idx)), {ThreadDir(idx)})
    /\ idx' = idx + 1
    /\ pc' = IF kind = "large" THEN "rm_dst" ELSE pc
    /\ UNCHANGED <<rvars, gvars, traceVars, cfgVars, timeVars, subdirs, phase, poolVars, start_time, error, result>>

RemoveThreadDirsDone ==
    /\ pc = "rm_thread"
    /\ idx = NumThreadDirs
    /\ pc' = "rm_root"
    /\ idx' = 0
    /\ UNCHANGED <<rvars, gvars, traceVars, cfgVars, timeVars, subdirs, phase, fs, poolVars, start_time, cleanVars, error, result>>

\* RemoveRoot outside its try/except: a failure leaves the scenario.
RemoveRoot_unguarded ==
    /\ pc = "rm_root"
    /\ attempted' = attempted \cup {Step("root", 0)}
    /\ \/ /\ CanRmdir(OutputDir)
          /\ fs' = fs \ {OutputDir}
          /\ pc' = "rm_src"
          /\ UNCHANGED <<injected, error, start_time>>
       \/ /\ Raise("cleanup")
          /\ injected' = IF CanRmdir(OutputDir)
                            THEN injected \cup {Step("root", 0)} ELSE injected
          /\ UNCHANGED fs
    /\ idx' = 0
    /\ UNCHANGED <<rvars, gvars, traceVars, cfgVars, timeVars, subdirs, phase, poolVars, result>>

\* s3_client.delete_bucket(Bucket=...) / os.rmdir(output_dir)
RemoveRoot ==
    /\ pc = "rm_root"
    /\ Delete(Step("root", 0), CanRmdir(OutputDir), {OutputDir})
    /\ pc' = "rm_src"
    /\ idx' = 0
    /\ UNCHANGED <<rvars, gvars, traceVars, cfgVars, timeVars, subdirs, phase, poolVars, start_time, error, result>>

\* subprocess.run(['hdfs', 'dfs', '-rm', '-r', '-f', output_dir])
HdfsRemove ==
    /\ pc = "rm_remote"
    /\ Delete(Step("root", 0), TRUE, {OutputDir} \cup Under(OutputDir, fs))
    /\ pc' = "rm_download"
    /\ UNCHANGED <<rvars, gvars, traceVars, cfgVars, timeVars, subdirs, phase, idx, poolVars, start_time, error, result>>

\* shutil.rmtree(download_dir)
RemoveDownloadDir ==
    /\ pc = "rm_download"
    /\ Delete(Step("download", 0), DownloadDir \in fs,
              {DownloadDir} \cup Under(DownloadDir, fs))
    /\ pc' = "rm_src"
    /\ idx' = 0
    /\ UNCHANGED <<rvars, gvars, traceVars, cfgVars, timeVars, subdirs, phase, poolVars, start_time, error, result>>

\* os.remove(file_path) for the staged file idx.
RemoveSrc ==
    /\ pc = "rm_src"
    /\ idx < num_files
    /\ Delete(Step("src", idx), SrcFile(idx) \in fs, {SrcFile(idx)})
    /\ idx' = idx + 1
    /\ UNCHANGED <<rvars, gvars, traceVars, cfgVars, timeVars, subdirs, pc, phase, poolVars, start_time, error, result>>

RemoveSrcDone ==
    /\ pc = "rm_src"
    /\ idx = num_files
    /\ pc' = IF kind = "hdfs" THEN "rm_subdir" ELSE "rm_temp"
    /\ idx' = 0
    /\ UNCHANGED <<rvars, gvars, traceVars, cfgVars, timeVars, subdirs, phase, fs, poolVars, start_time, cleanVars, error, result>>

\* len(subdirs)
NumSubdirs == Len(subdirs)

\* os.rmdir(subdir) for entry idx of subdirs.
RemoveSubdir ==
    /\ pc = "rm_subdir"
    /\ idx < NumSubdirs
    /\ Delete(Step("subdir", idx), CanRmdir(subdirs[idx + 1]), {subdirs[idx + 1]})
    /\ idx' = idx + 1
    /\ UNCHANGED <<rvars, gvars, traceVars, cfgVars, timeVars, subdirs, pc, phase, poolVars, start_time, error, result>>

RemoveSubdirsDone ==
    /\ pc = "rm_subdir"
    /\ idx = NumSubdirs
    /\ pc' = "rm_temp"
    /\ idx' = 0
    /\ UNCHANGED <<rvars, gvars, traceVars, cfgVars, timeVars, subdirs, phase, fs, poolVars, start_time, cleanVars, error, result>>

\* os.rmdir(temp_dir)
RemoveTempDir ==
    /\ pc = "rm_temp"
    /\ Delete(Step("temp", 0), CanRmdir(TempDir), {TempDir})
    /\ pc' = "return"
    /\ UNCHANGED <<rvars, gvars, traceVars, cfgVars, timeVars, subdirs, phase, idx, poolVars, start_time, error, result>>

\* return {'write_speed_mbs': ..., 'read_speed_mbs': ...}
\* The dict a scenario returns: speed_mbs and read_speed_mbs; test_large_files, which
\* has GB/s, returns speed * 1024 and read_speed * 1024.
ReturnValue ==
    [write_speed_mbs |-> IF kind = "large" THEN Times(speed, 1024) ELSE speed,
     read_speed_mbs |-> IF kind = "large" THEN Times(read_speed, 1024) ELSE read_speed]

Return ==
    /\ pc = "return"
    /\ result' = "speeds"
    /\ pc' = "done"
    /\ UNCHANGED <<rvars, gvars, traceVars, cfgVars, timeVars, subdirs, phase, idx, fs, poolVars, start_time, cleanVars, error>>

Next ==
    \/ MakeTempDir
    \/ StageFile
    \/ StageDone
    \/ CreateBucket
    \/ MakeOutputDir
    \/ MakeThreadDir
    \/ ThreadDirsDone
    \/ HdfsMkdir
    \/ MakeDownloadDir
    \/ StartTimer
    \/ Submit
    \/ AsCompleted
    \/ StartOp
    \/ FinishOp
    \/ TakeResult
    \/ Shutdown
    \/ HdfsCopy
    \/ StopTimer
    \/ BeginCleanup
    \/ RemoveDst
    \/ RemoveDstDone
    \/ RemoveThreadDir
    \/ RemoveThreadDirsDone
    \/ RemoveRoot
    \/ HdfsRemove
    \/ RemoveDownloadDir
    \/ RemoveSrc
    \/ RemoveSrcDone
    \/ RemoveSubdir
    \/ RemoveSubdirsDone
    \/ RemoveTempDir
    \/ Return

Spec == Init /\ [][Next]_vars

\* ------------------------------------------- staging of test_files_local_copy
\* The item counts around the multiples of files_per_subdir.
StagingCounts ==
    {c \in {k * files_per_subdir + r : k \in 0 .. MaxSubdirs, r \in {-1, 0, 1}} : c >= 0}

\* test_files_local_copy is called with such a count; temp_dir and its first
\* subdirectory may be there already.
StagingScenario ==
    /\ kind = "hdfs"
    /\ num_files \in StagingCounts
    /\ parallel_writes = 1
    /\ size = 1
    /\ pc = "makedirs"
    /\ phase = "none"
    /\ idx = 0
    /\ subdirs = <<>>
    /\ fs \in {f \in SUBSET {TempDir, SubDir(0)} : SubDir(0) \in f => TempDir \in f}
    /\ futures = [i \in Items |-> "new"]
    /\ finished = {}
    /\ waiter = <<>>
    /\ yielded = {}
    /\ caught = -1
    /\ first_failed = -1
    /\ start_time = -1
    /\ clock = 0
    /\ readings = <<>>
    /\ speed = <<>>
    /\ read_speed = <<>>
    /\ attempted = {}
    /\ injected = {}
    /\ error = "none"
    /\ result = "none"
    /\ prepare_outcome = "none"
    /\ commands = <<>>
    /\ stderr = ""
    /\ message = ""
    /\ at_error = [i \in Items |-> "new"]

StagingInit == StagingScenario /\ RunnerIdle /\ GeneratorIdle

\* The pre-creation part of test_files_local_copy, up to the end of its loop.
StagingNext ==
    \/ MakeTempDir
    \/ StageFile
    \/ StageDone

StagingSpec == StagingInit /\ [][StagingNext]_vars

\* ------------------------------------------------- roots that are in use
\* The scenario is called on a target root (bucket, output directory, remote
\* directory) and a staging root that exist and hold somebody else's file.
ForeignScenario ==
    /\ kind \in Kinds
    /\ num_files \in 0 .. MaxFiles
    /\ parallel_writes \in
          CASE kind = "large" -> {num_files}
            [] kind = "small" -> 1 .. MaxPar
            [] OTHER -> (1 .. MaxPar) \cup {num_files}
    /\ size = 1
    /\ pc = "makedirs"
    /\ phase = "none"
    /\ idx = 0
    /\ subdirs = <<>>
    /\ fs = {TempDir, ForeignInStaging, OutputDir, ForeignInTarget}
    /\ futures = [i \in Items |-> "new"]
    /\ finished = {}
    /\ waiter = <<>>
    /\ yielded = {}
    /\ caught = -1
    /\ first_failed = -1
    /\ start_time = -1
    /\ clock = 0
    /\ readings = <<>>
    /\ speed = <<>>
    /\ read_speed = <<>>
    /\ attempted = {}
    /\ injected = {}
    /\ error = "none"
    /\ result = "none"
    /\ prepare_outcome = "none"
    /\ commands = <<>>
    /\ stderr = ""
    /\ message = ""
    /\ at_error = [i \in Items |-> "new"]

ForeignInit == ForeignScenario /\ RunnerIdle /\ GeneratorIdle

ForeignSpec == ForeignInit /\ [][Next]_vars

\* ---------------------------------------------------------- the clock
\* A scenario is called with items of any size, on an empty file system.
TimingScenario ==
    /\ kind \in Kinds
    /\ num_files \in 1 .. MaxPar
    /\ parallel_writes \in IF kind = "small" THEN {1} ELSE {num_files}
    /\ size \in 1 .. MaxSize
    /\ pc = "makedirs"
    /\ phase = "none"
    /\ idx = 0
    /\ subdirs = <<>>
    /\ fs = {}
    /\ futures = [i \in Items |-> "new"]
    /\ finished = {}
    /\ waiter = <<>>
    /\ yielded = {}
    /\ caught = -1
    /\ first_failed = -1
    /\ start_time = -1
    /\ clock = 0
    /\ readings = <<>>
    /\ speed = <<>>
    /\ read_speed = <<>>
    /\ attempted = {}
    /\ injected = {}
    /\ error = "none"
    /\ result = "none"
    /\ prepare_outcome = "none"
    /\ commands = <<>>
    /\ stderr = ""
    /\ message = ""
    /\ at_error = [i \in Items |-> "new"]

TimingInit == TimingScenario /\ RunnerIdle /\ GeneratorIdle

\* Time passes while the scenario runs, whatever it is doing: in staging, in a
\* transfer, between the phases, in cleanup.
Tick ==
    /\ pc \notin {"failed", "done"}
    /\ clock < MaxClock
    /\ clock' = clock + 1
    /\ UNCHANGED <<rvars, gvars, traceVars, cfgVars, readings, speed, read_speed, subdirs, pc,
                   phase, idx, fs, poolVars, start_time, cleanVars, error, result>>

TimingNext ==
    \/ Tick
    \/ Next

TimingSpec == TimingInit /\ [][TimingNext]_vars

\* ----------------------------------------------------------------- runner
\* main() of run_benchmark.py. The groups in the order main() tries them:
\* 1 hopsfs-mount (test_large_files, test_small_files), 2 minio (test_files_s3
\* twice), 3 java-client (test_files_local_copy twice). A scenario call is its
\* outcome: the speeds it returns or the exception it raises.
Groups == {1, 2, 3}
TestsPerGroup == 2
Speeds == {10, 20, 30}

\* The scenario variables at rest while the runner is what is modelled.
ScenarioIdle ==
    /\ kind = "s3"
    /\ num_files = 1
    /\ parallel_writes = 1
    /\ size = 1
    /\ pc = "idle"
    /\ phase = "none"
    /\ idx = 0
    /\ subdirs = <<>>
    /\ fs = {}
    /\ futures = [i \in Items |-> "new"]
    /\ finished = {}
    /\ waiter = <<>>
    /\ yielded = {}
    /\ caught = -1
    /\ first_failed = -1
    /\ start_time = -1
    /\ clock = 0
    /\ readings = <<>>
    /\ speed = <<>>
    /\ read_speed = <<>>
    /\ attempted = {}
    /\ injected = {}
    /\ error = "none"
    /\ result = "none"
    /\ prepare_outcome = "none"
    /\ commands = <<>>
    /\ stderr = ""
    /\ message = ""
    /\ at_error = [i \in Items |-> "new"]

\* After argument parsing: at least one group is selected, or main() has exited.
RunnerInit ==
    /\ ScenarioIdle
    /\ GeneratorIdle
    /\ selected \in SUBSET Groups \ {{}}
    /\ runs \in 1 .. MaxRuns
    /\ rpc = "main"
    /\ group = 1
    /\ test = 0
    /\ run = 0
    /\ calls = 0
    /\ aggregate = <<>>
    /\ all_write_speeds = <<>>
    /\ all_read_speeds = <<>>
    /\ group_results = {}
    /\ all_results = {}
    /\ executed = {}
    /\ failed_at = <<0, 0>>
    /\ printed = {}
    /\ exit_code = -1
    /\ csv_files = {}

\* if run_hopsfs / run_minio / run_hdfs: the group is not selected.
SkipGroup ==
    /\ rpc = "main"
    /\ group \in Groups \ selected
    /\ group' = group + 1
    /\ UNCHANGED <<svars, gvars, csv_files, selected, runs, rpc, test, run, calls, aggregate, all_write_speeds,
                   all_read_speeds, group_results, all_results, executed, failed_at, printed,
                   exit_code>>

\* run_*_tests(config) is called: results = {}, and its first run_test_multiple_times
\* begins with two empty lists.
EnterGroup ==
    /\ rpc = "main"
    /\ group \in selected
    /\ rpc' = "run"
    /\ test' = 1
    /\ run' = 0
    /\ calls' = 0
    /\ group_results' = {}
    /\ all_write_speeds' = <<>>
    /\ all_read_speeds' = <<>>
    /\ UNCHANGED <<svars, gvars, csv_files, selected, runs, group, aggregate, all_results, executed, failed_at,
                   printed, exit_code>>

\* An iteration of run_test_multiple_times' loop begins: test_func(**kwargs) is
\* called, in the thread of main().
RunScenario ==
    /\ rpc = "run"
    /\ test <= TestsPerGroup
    /\ run < runs
    /\ rpc' = "call"
    /\ calls' = calls + 1
    /\ executed' = executed \cup {<<group, test>>}
    /\ UNCHANGED <<svars, gvars, csv_files, selected, runs, group, test, run, aggregate, all_write_speeds,
                   all_read_speeds, group_results, all_results, failed_at, printed, exit_code>>

\* ScenarioReturns with the call in a try/except that scores a failed run as zero
\* and goes on to the next run.
ScenarioReturns_scores_failure ==
    /\ rpc = "call"
    /\ \/ \E w \in Speeds, r \in Speeds :
            /\ all_write_speeds' = Append(all_write_speeds, w)
            /\ all_read_speeds' = Append(all_read_speeds, r)
            /\ UNCHANGED <<failed_at, printed>>
       \/ /\ failed_at' = <<group, test>>
          /\ printed' = printed \cup {"error"}
          /\ all_write_speeds' = Append(all_write_speeds, 0)
          /\ all_read_speeds' = Append(all_read_speeds, 0)
    /\ run' = run + 1
    /\ rpc' = "run"
    /\ UNCHANGED <<svars, gvars, csv_files, selected, runs, group, test, calls, aggregate, group_results,
                   all_results, executed, exit_code>>

\* ScenarioReturns with the report in a finally clause: what was collected before the
\* failure is summarised and saved.
ScenarioReturns_saves_collected ==
    /\ rpc = "call"
    /\ \/ \E w \in Speeds, r \in Speeds :
            /\ all_write_speeds' = Append(all_write_speeds, w)
            /\ all_read_speeds' = Append(all_read_speeds, r)
            /\ run' = run + 1
            /\ rpc' = "run"
            /\ UNCHANGED <<failed_at, printed, exit_code, csv_files>>
       \/ /\ failed_at' = <<group, test>>
          /\ printed' = printed \cup {"error", "summary"}
          /\ csv_files' = IF all_results = {} THEN {}
                          ELSE {"write_speeds.csv", "read_speeds.csv"}
          /\ exit_code' = 1
          /\ rpc' = "exited"
          /\ UNCHANGED <<run, all_write_speeds, all_read_speeds>>
    /\ UNCHANGED <<svars, gvars, selected, runs, group, test, calls, aggregate, group_results,
                   all_results, executed>>

\* test_func returns its dict, whose two speeds are appended to the lists; or it
\* raises, and its exception is caught nowhere before main()'s except clause,
\* which prints it and calls sys.exit(1).
ScenarioReturns ==
    /\ rpc = "call"
    /\ \/ \E w \in Speeds, r \in Speeds :
            /\ all_write_speeds' = Append(all_write_speeds, w)
            /\ all_read_speeds' = Append(all_read_speeds, r)
            /\ run' = run + 1
            /\ rpc' = "run"
            /\ UNCHANGED <<failed_at, printed, exit_code>>
       \/ /\ failed_at' = <<group, test>>
          /\ printed' = printed \cup {"error"}
          /\ exit_code' = 1
          /\ rpc' = "exited"
          /\ UNCHANGED <<run, all_write_speeds, all_read_speeds>>
    /\ UNCHANGED <<svars, gvars, csv_files, selected, runs, group, test, calls, aggregate, group_results,
                   all_results, executed>>

RECURSIVE sum(_)
\* sum(list)
sum(list) == IF list = <<>> THEN 0 ELSE Head(list) + sum(Tail(list))

\* a / b of two numbers, kept as the fraction it is.
Quotient(a, b) == <<a, b>>

\* FinishTest with the sums reported as the averages.
FinishTest_without_division ==
    /\ rpc = "run"
    /\ test <= TestsPerGroup
    /\ run = runs
    /\ aggregate' = <<[write_speed_mbs |-> Quotient(sum(all_write_speeds), 1),
                       read_speed_mbs |-> Quotient(sum(all_read_speeds), 1),
                       all_write_speeds |-> all_write_speeds,
                       all_read_speeds |-> all_read_speeds]>>
    /\ printed' = IF runs > 1 THEN printed \cup {"average"} ELSE printed
    /\ rpc' = "store"
    /\ UNCHANGED <<svars, gvars, csv_files, selected, runs, group, test, run, calls, all_write_speeds,
                   all_read_speeds, group_results, all_results, executed, failed_at, exit_code>>

\* The loop of run_test_multiple_times is over: the averages, printed if there was
\* more than one run, and the dict it returns.
FinishTest ==
    /\ rpc = "run"
    /\ test <= TestsPerGroup
    /\ run = runs
    /\ aggregate' = <<[write_speed_mbs |-> Quotient(sum(all_write_speeds), Len(all_write_speeds)),
                       read_speed_mbs |-> Quotient(sum(all_read_speeds), Len(all_read_speeds)),
                       all_write_speeds |-> all_write_speeds,
                       all_read_speeds |-> all_read_speeds]>>
    /\ printed' = IF runs > 1 THEN printed \cup {"average"} ELSE printed
    /\ rpc' = "store"
    /\ UNCHANGED <<svars, gvars, csv_files, selected, runs, group, test, run, calls, all_write_speeds,
                   all_read_speeds, group_results, all_results, executed, failed_at, exit_code>>

\* results[name] = the dict returned; then the group's next run_test_multiple_times
\* begins with two empty lists.
StoreResult ==
    /\ rpc = "store"
    /\ group_results' = group_results \cup {<<group, test>>}
    /\ aggregate' = <<>>
    /\ test' = test + 1
    /\ run' = 0
    /\ calls' = 0
    /\ all_write_speeds' = <<>>
    /\ all_read_speeds' = <<>>
    /\ rpc' = "run"
    /\ UNCHANGED <<svars, gvars, csv_files, selected, runs, group, all_results, executed, failed_at, printed,
                   exit_code>>

\* return results; all_results.update(results)
GroupReturns ==
    /\ rpc = "run"
    /\ test > TestsPerGroup
    /\ all_results' = all_results \cup group_results
    /\ group' = group + 1
    /\ rpc' = "main"
    /\ UNCHANGED <<svars, gvars, csv_files, selected, runs, test, run, calls, aggregate, all_write_speeds,
                   all_read_speeds, group_results, executed, failed_at, printed, exit_code>>

\* print_results_summary, then write_results_to_csv, which writes write_speeds.csv and
\* then read_speeds.csv, then "Benchmark complete!", and main() returns. Opening or
\* writing a file may raise: main()'s except clause prints the error and exits.
Summary ==
    /\ rpc = "main"
    /\ group \notin Groups
    /\ \/ /\ csv_files' = IF all_results = {} THEN {}
                          ELSE {"write_speeds.csv", "read_speeds.csv"}
          /\ printed' = printed \cup {"summary", "complete"}
          /\ exit_code' = 0
       \/ /\ all_results # {}
          /\ csv_files' \in {{}, {"write_speeds.csv"}}
          /\ printed' = printed \cup {"summary", "error"}
          /\ exit_code' = 1
    /\ rpc' = "exited"
    /\ UNCHANGED <<svars, gvars, selected, runs, group, test, run, calls, aggregate, all_write_speeds,
                   all_read_speeds, group_results, all_results, executed, failed_at>>

RunnerNext ==
    \/ SkipGroup
    \/ EnterGroup
    \/ RunScenario
    \/ ScenarioReturns
    \/ FinishTest
    \/ StoreResult
    \/ GroupReturns
    \/ Summary

RunnerSpec == RunnerInit /\ [][RunnerNext]_vars

\* -------------------------------------------------------------- generators
\* write_large_file(file_path, size_gb) and write_small_file(file_path, size_kb),
\* from size_bytes on. The sizes tried lie around the multiples of chunk_size.
Remainders == {0, 1, 2, chunk_size \div 2, chunk_size - 1}
Sizes == {k * chunk_size + r : k \in 0 .. MaxChunks, r \in Remainders}

\* The file at file_path may be there already, with some content.
GeneratorInit ==
    /\ ScenarioIdle
    /\ RunnerIdle
    /\ generator \in {"write_large_file", "write_small_file"}
    /\ gpc = "open"
    /\ size_bytes \in Sizes
    /\ written = 0
    /\ to_write = 0
    /\ file_size \in {0, 1}

min(a, b) == IF a <= b THEN a ELSE b

\* with open(file_path, 'wb') as f: the file is created, or truncated; written = 0.
OpenFile ==
    /\ gpc = "open"
    /\ file_size' = 0
    /\ written' = 0
    /\ gpc' = IF generator = "write_large_file" THEN "loop" ELSE "urandom"
    /\ UNCHANGED <<svars, rvars, generator, size_bytes, to_write>>

\* WriteChunk with zero_chunk written in every iteration.
WriteChunk_always_zero_chunk ==
    /\ gpc = "loop"
    /\ written < size_bytes
    /\ to_write' = chunk_size
    /\ file_size' = file_size + to_write'
    /\ written' = written + to_write'
    /\ UNCHANGED <<svars, rvars, generator, gpc, size_bytes>>

\* One iteration of write_large_file's loop: zero_chunk, or the shorter rest.
WriteChunk ==
    /\ gpc = "loop"
    /\ written < size_bytes
    /\ to_write' = min(chunk_size, size_bytes - written)
    /\ file_size' = file_size + to_write'
    /\ written' = written + to_write'
    /\ UNCHANGED <<svars, rvars, generator, gpc, size_bytes>>

\* f.write(os.urandom(size_bytes)): os.urandom(n) is n bytes long.
WriteRandom ==
    /\ gpc = "urandom"
    /\ to_write' = size_bytes
    /\ file_size' = file_size + to_write'
    /\ gpc' = "close"
    /\ UNCHANGED <<svars, rvars, generator, size_bytes, written>>

\* The with block is left (write_large_file: once written >= size_bytes) and the
\* function returns.
CloseFile ==
    /\ \/ gpc = "loop" /\ written >= size_bytes
       \/ gpc = "close"
    /\ gpc' = "done"
    /\ UNCHANGED <<svars, rvars, generator, size_bytes, written, to_write, file_size>>

GeneratorNext ==
    \/ OpenFile
    \/ WriteChunk
    \/ WriteRandom
    \/ CloseFile

\* The function runs in one thread, which takes its next step when it has one.
GeneratorSpec == GeneratorInit /\ [][GeneratorNext]_vars /\ WF_vars(GeneratorNext)

\* ------------------------------------------------------------------ claims
Pooled == kind # "hdfs"
StagedFiles == {SrcFile(i) : i \in Items}
WrittenItems ==
    {Destination(i) : i \in Items} \cup {RemoteFile(i) : i \in Items}
        \cup {DownloadedFile(i) : i \in Items}
CleanupPcs ==
    {"cleanup", "rm_dst", "rm_thread", "rm_root", "rm_remote", "rm_download",
     "rm_src", "rm_subdir", "rm_temp", "return", "done"}
TimedPcs == {"submit", "wait", "join", "batch", "stop"}
TransferPcs == {"submit", "wait", "join", "batch"}

\* C1: when a scenario fails after staging has begun, cleanup is still attempted
\* before the error reaches the caller, so no staged local file and no remote
\* object of the scenario is left behind.
C1_CleanupBeforeErrorPropagates ==
    pc = "failed" => fs \cap (StagedFiles \cup WrittenItems) = {}

C3_BatchReturnsAfterAllSettled ==
    /\ pc \notin {"submit", "wait", "join"} => Queued \cup Running = {}
    /\ (Pooled /\ (pc = "stop" \/ (pc = "failed" /\ error = "transfer"))) =>
          \A i \in Items : Settled(i)

C3_Witness ==
    /\ pc = "failed"
    /\ error = "transfer"
    /\ \E i \in Items : futures[i] = "ok" /\ i \notin yielded

\* C4, as stated: a batch with a failed operation raises and never yields an elapsed
\* time, the error raised is that of the operation that failed first in completion
\* order, and it is raised once all operations have settled.
C4_RaisesFirstFailureInCompletionOrder ==
    /\ (\E i \in Items : futures[i] = "err") =>
          (pc \in {"submit", "wait", "join", "failed"} /\ result = "none")
    /\ (pc = "failed" /\ error = "transfer") =>
          /\ caught = first_failed
          /\ \A i \in Items : Settled(i)

\* C4, amended: a batch with a failed operation raises and never yields an elapsed
\* time; the error raised is the first failure the as_completed loop meets, which
\* takes the futures already done when the wait began first, in no particular
\* order, and the others in completion order; so it is the first failure in
\* completion order unless some operation had failed before the wait began, and
\* then it is one of those; and it is raised once all operations have settled.
C4_RaisesFirstObservedFailure ==
    /\ (\E i \in Items : futures[i] = "err") =>
          (pc \in {"submit", "wait", "join", "failed"} /\ result = "none")
    /\ (pc = "failed" /\ error = "transfer") =>
          /\ futures[caught] = "err"
          /\ \A j \in yielded \ {caught} : futures[j] = "ok"
          /\ IF \E j \in finished : futures[j] = "err"
                THEN caught \in finished
                ELSE caught = first_failed
          /\ \A i \in Items : Settled(i)

C4_Witness ==
    /\ pc = "failed"
    /\ error = "transfer"
    /\ caught \notin finished
    /\ caught = first_failed
    /\ \E j \in Items \ {caught} : futures[j] = "err"

\* The scenario's phases, by the place of the main thread: 1 stage, 2 prepare,
\* 3 timed write, 4 timed read, 5 cleanup; 6 once an exception has left it.
PhaseRank ==
    CASE pc \in {"makedirs", "stage"} -> 1
      [] pc \in {"prepare", "thread_dirs", "download_dir"} -> 2
      [] pc \in {"timer", "submit", "wait", "join", "batch", "stop"} ->
            IF phase = "write" THEN 3 ELSE 4
      [] pc \in CleanupPcs -> 5
      [] OTHER -> 6

\* What holds of the pool whenever the read phase or the cleanup is under way: the
\* read phase finds every item written, and cleanup finds every read settled.
PhasesDoNotOverlap ==
    /\ (Pooled /\ phase = "read") => \A i \in Items : Destination(i) \in fs
    /\ (Pooled /\ PhaseRank = 5) => \A i \in Items : futures[i] = "ok"
    /\ PhaseRank \in {1, 2, 5} => Queued \cup Running = {}

\* The read phase is entered only from the end of the write phase, with the write
\* pool joined and every write settled.
ReadEntered ==
    (phase' = "read" /\ phase # "read") =>
        (pc = "stop" /\ (Pooled => \A i \in Items : futures[i] = "ok"))

\* C5, as stated: the phases run in the order stage, prepare, timed write, timed
\* read, cleanup and never go back; no read is dispatched before every write has
\* settled and the pool is joined, and no cleanup step starts before every read has
\* settled.
C5_StrictPhaseOrder ==
    /\ []PhasesDoNotOverlap
    /\ [][ReadEntered /\ PhaseRank' >= PhaseRank]_vars

\* C5, amended: the same, except that test_files_local_copy makes its download
\* directory, a preparation step, after the timed write and before the timed read.
C5_PhaseOrderButDownloadDir ==
    /\ []PhasesDoNotOverlap
    /\ [][ReadEntered /\ (PhaseRank' >= PhaseRank \/ (kind = "hdfs" /\ pc' = "download_dir"))]_vars

C5_Witness ==
    /\ Pooled
    /\ PhaseRank = 5
    /\ attempted # {}

\* C6: the operations in progress never outnumber the pool's workers.
C6_RunningWithinPoolSize ==
    Cardinality(Running) <= max_workers

C6_Witness ==
    /\ num_files >= 2
    /\ max_workers = num_files
    /\ Running = Items

\* The cleanup steps of the scenario.
AllCleanupSteps ==
    {Step("src", i) : i \in Items} \cup {Step("temp", 0), Step("root", 0)}
        \cup (IF Pooled THEN {Step("dst", i) : i \in Items} ELSE {})
        \cup (IF kind \in {"large", "small"}
                 THEN {Step("thread", t) : t \in 0 .. (NumThreadDirs - 1)} ELSE {})
        \cup (IF kind = "hdfs"
                 THEN {Step("download", 0)} \cup {Step("subdir", k) : k \in 0 .. (NumSubdirs - 1)}
                 ELSE {})

\* C7: whichever cleanup steps fail, no failure leaves the scenario, every cleanup
\* step is attempted, and the scenario returns its speeds.
C7_CleanupFailuresNeverPropagate ==
    /\ attempted # {} => pc \in CleanupPcs
    /\ attempted \subseteq AllCleanupSteps
    /\ pc \in {"return", "done"} => attempted = AllCleanupSteps
    /\ pc = "done" => result = "speeds"

C7_Witness ==
    /\ pc = "done"
    /\ result = "speeds"
    /\ {Step("dst", 0), Step("root", 0), Step("src", 0)} \subseteq attempted
    /\ {Step("dst", 0), Step("src", 0)} \subseteq injected

\* Exactly one deletion was made to fail, and it is that of destination item j.
OnlyItemFailed(j) == pc = "done" /\ injected = {Step("dst", j)}

\* C8, as stated: when the deletion of exactly one item fails, every other item and
\* the root are removed all the same.
C8_OthersAndRootRemoved ==
    \A j \in Items :
        OnlyItemFailed(j) =>
            /\ \A i \in Items \ {j} : Destination(i) \notin fs
            /\ OutputDir \notin fs

\* C8, amended: when the deletion of exactly one item fails, every other item is
\* removed and the removal of every directory and of the root is still attempted;
\* the undeleted item stays, and so do the directories above it (its thread
\* directory, the output directory or bucket), which are not empty; the thread
\* directories without it and all that was staged locally are removed.
C8_OthersRemovedRootAttempted ==
    \A j \in Items :
        OnlyItemFailed(j) =>
            /\ \A i \in Items \ {j} : Destination(i) \notin fs
            /\ attempted = AllCleanupSteps
            /\ fs \cap StagedFiles = {}
            /\ TempDir \notin fs
            /\ fs = {Destination(j), OutputDir}
                      \cup (IF kind = "s3" THEN {} ELSE {ThreadDir(thread_id(j))})

C8_Witness ==
    /\ num_files = MaxFiles
    /\ OnlyItemFailed(MaxFiles - 1)
    /\ OutputDir \in fs

\* C9: after a scenario whose transfers and deletions all succeed, nothing is left:
\* no destination item, thread directory or staging subdirectory, not the target
\* root, no staged file, not the staging root, not the download directory. (A
\* directory removed before its contents would stay, and its parents with it.)
C9_NothingRemains ==
    (pc = "done" /\ injected = {}) => fs = {}

C9_Witness ==
    /\ pc = "done"
    /\ injected = {}
    /\ kind = "small"
    /\ num_files = MaxFiles
    /\ fs = {}


\* The scenarios the command line selects, in the order they are scheduled.
Scheduled == {<<g, t>> : g \in selected, t \in 1 .. TestsPerGroup}
After(a, b) == a[1] > b[1] \/ (a[1] = b[1] /\ a[2] > b[2])

\* C10: when a scenario fails, its failure is reported and the scenarios scheduled
\* after it, in its group and in the later selected groups, are executed all the
\* same.
C10_LaterScenariosStillRun ==
    (rpc = "exited" /\ failed_at # <<0, 0>>) =>
        /\ "error" \in printed
        /\ \A sc \in Scheduled : After(sc, failed_at) => sc \in executed

\* C11: in every backend, once the creation of the target root (bucket, output
\* directory and its thread directories, remote directory) has failed for a reason
\* other than "already exists", the scenario has left with an error: no timer is
\* started and no operation is dispatched after the failure.
C11_PreparationFailureAborts ==
    prepare_outcome = "failed" =>
        /\ pc = "failed"
        /\ ~TimerRunning
        /\ \A i \in Items : futures[i] = "new"

\* C12: a scenario with zero items is rejected with a configuration error when it
\* is set up, before any staging, preparation or transfer, and no scenario ever
\* divides by an elapsed time of zero.
C12_DegenerateConfigRejected ==
    /\ num_files = 0 =>
          \/ pc = "makedirs"
          \/ pc = "failed" /\ error = "config" /\ prepare_outcome = "none" /\ ~TimerRunning
    /\ error # "division"

\* The thread directories of the scenario.
ThreadDirs == {ThreadDir(t) : t \in 0 .. (NumThreadDirs - 1)}

\* A target root that was found in place stays in place until cleanup, and the
\* timed write phase is entered with the root and the thread directories there.
PreparedTargetInPlace ==
    /\ (prepare_outcome = "existed" /\ pc \notin CleanupPcs) => OutputDir \in fs
    /\ (pc = "timer" /\ phase = "write" /\ prepare_outcome # "failed") =>
          /\ OutputDir \in fs
          /\ kind \in {"large", "small"} => ThreadDirs \subseteq fs

\* Creating what has just been created changes nothing.
PreparedTwiceIsOnce ==
    /\ makedirs(OutputDir, makedirs(OutputDir, fs)) = makedirs(OutputDir, fs)
    /\ \A d \in ThreadDirs : makedirs(d, makedirs(d, fs)) = makedirs(d, fs)

\* A creation step that finds its directory or bucket in place is a success: it
\* leaves everything as it is and the scenario goes on to its next step.
ExistingIsSuccess ==
    /\ (pc = "prepare" /\ prepare_outcome' = "existed") =>
          /\ fs' = fs
          /\ pc' = IF kind \in {"large", "small"} THEN "thread_dirs" ELSE "timer"
          /\ error' = "none"
    /\ (pc = "thread_dirs" /\ idx < NumThreadDirs /\ ThreadDir(idx) \in fs
            /\ prepare_outcome' # "failed") =>
          /\ fs' = fs
          /\ idx' = idx + 1
          /\ pc' = "thread_dirs"
          /\ error' = "none"

\* C13: target preparation is idempotent in every backend: a root that already
\* exists (output directory and thread directories, bucket owned by the caller,
\* remote directory) counts as success, stays in place, and the scenario goes on
\* to the timed write phase; preparing twice leaves what preparing once leaves.
C13_PreparationIdempotent ==
    /\ [](PreparedTargetInPlace /\ PreparedTwiceIsOnce)
    /\ [][ExistingIsSuccess]_vars

C13_Witness ==
    /\ prepare_outcome = "existed"
    /\ phase = "write"
    /\ TimerRunning

\* C14: within a scenario no two distinct items have the same staged local path
\* or the same destination (file in a thread directory, object key, remote file),
\* whatever the item count and the parallelism; so no two operations in progress
\* write the same destination.
C14_DestinationsInjective ==
    /\ \A i, j \in Items :
          i # j =>
              /\ SrcFile(i) # SrcFile(j)
              /\ Destination(i) # Destination(j)
              /\ RemoteFile(i) # RemoteFile(j)
              /\ DownloadedFile(i) # DownloadedFile(j)
    /\ Cardinality({Destination(i) : i \in Items}) = num_files
    /\ \A i, j \in Running : i # j => Destination(i) # Destination(j)

C14_Witness ==
    /\ kind = "small"
    /\ phase = "write"
    /\ thread_id(0) = thread_id(2)
    /\ {0, 2} \subseteq Running

\* The calls of the scenario are made one at a time: while one is in progress all
\* earlier ones have returned their samples, and no more than `runs` are made.
OneCallAtATime ==
    /\ calls <= runs
    /\ Len(all_write_speeds) = run
    /\ Len(all_read_speeds) = run
    /\ rpc = "call" => calls = run + 1
    /\ rpc \in {"run", "store"} => calls = run

\* What run_test_multiple_times returns: `runs` calls were made, the samples are
\* those of the calls, `runs` of each, and each average is their sum over `runs`.
AggregateIsMean ==
    aggregate # <<>> =>
        LET a == aggregate[1]
        IN  /\ calls = runs
            /\ a.all_write_speeds = all_write_speeds
            /\ a.all_read_speeds = all_read_speeds
            /\ Len(a.all_write_speeds) = runs
            /\ Len(a.all_read_speeds) = runs
            /\ a.write_speed_mbs = <<sum(a.all_write_speeds), runs>>
            /\ a.read_speed_mbs = <<sum(a.all_read_speeds), runs>>
            /\ a.all_write_speeds = <<10, 20, 30>> =>
                  a.write_speed_mbs[1] = 20 * a.write_speed_mbs[2]
            /\ runs = 1 =>
                  /\ a.write_speed_mbs[1] = a.all_write_speeds[1] * a.write_speed_mbs[2]
                  /\ a.read_speed_mbs[1] = a.all_read_speeds[1] * a.read_speed_mbs[2]

\* The sample of a call is put after the samples of the earlier calls, which stay
\* as they are.
SamplesInRunOrder ==
    rpc = "call" =>
        \/ UNCHANGED <<all_write_speeds, all_read_speeds>>
        \/ \E w \in Speeds, r \in Speeds :
              /\ all_write_speeds' = Append(all_write_speeds, w)
              /\ all_read_speeds' = Append(all_read_speeds, r)

\* C15: for every runs >= 1 and a scenario whose runs all succeed,
\* run_test_multiple_times calls the scenario exactly `runs` times, one after the
\* other, returns `runs` write and `runs` read samples in run order, and reports
\* as averages their sums over `runs`: 10, 20, 30 give exactly 20, and with one
\* run the average is the one sample.
C15_RunsSequentiallyAndAverages ==
    /\ [](OneCallAtATime /\ AggregateIsMean)
    /\ [][SamplesInRunOrder]_vars

C15_Witness ==
    /\ aggregate # <<>>
    /\ runs = 3
    /\ calls = 3
    /\ aggregate[1].all_write_speeds = <<10, 20, 30>>
    /\ aggregate[1].write_speed_mbs = <<60, 3>>

\* What holds of a generator call at every moment: the running total never exceeds
\* the size asked for and is the length of the file; a chunk is never longer than
\* chunk_size; once the call has returned the file is exactly size_bytes long, and
\* the last chunk of write_large_file was the rest, size_bytes mod chunk_size, if
\* there is a rest, a whole chunk if not, and no chunk at all for a size of zero.
GeneratedSizeExact ==
    /\ written <= size_bytes
    /\ gpc # "open" => file_size <= size_bytes
    /\ generator = "write_large_file" =>
          /\ gpc \in {"loop", "done"} => file_size = written
          /\ to_write <= chunk_size
    /\ gpc = "done" =>
          /\ file_size = size_bytes
          /\ generator = "write_large_file" =>
                to_write = IF size_bytes = 0 THEN 0
                           ELSE IF size_bytes % chunk_size = 0 THEN chunk_size
                           ELSE size_bytes % chunk_size

\* C16: for every size S >= 0, write_large_file returns, having written exactly S
\* bytes (S zero, below chunk_size, a multiple of it or not), with a last chunk of
\* S mod chunk_size bytes when S is no multiple and a total that never exceeds S;
\* write_small_file writes exactly S bytes.
C16_GeneratesExactSize ==
    /\ []GeneratedSizeExact
    /\ <>(gpc = "done")

C16_Witness ==
    /\ generator = "write_large_file"
    /\ gpc = "done"
    /\ size_bytes = 2 * chunk_size + 1
    /\ to_write = 1
    /\ file_size = size_bytes

\* C17: when the generation of an item fails during staging the scenario is left
\* at once with that error: no later item is generated, the target is not
\* prepared, no timer is started, nothing is dispatched and no result is returned.
C17_GenerationFailureAborts ==
    error = "generation" =>
        /\ pc = "failed"
        /\ result = "none"
        /\ \A j \in Items : j > idx => SrcFile(j) \notin fs
        /\ prepare_outcome = "none"
        /\ ThreadDirs \cap fs \subseteq {ThreadDir(0)}
        /\ phase = "none"
        /\ ~TimerRunning
        /\ \A i \in Items : futures[i] = "new"

C17_Witness ==
    /\ error = "generation"
    /\ num_files = MaxFiles
    /\ idx = 1
    /\ SrcFile(0) \in fs

\* C18: in test_files_local_copy a copy command that ends with a non-zero status
\* raises an exception whose text carries the command's error output, and the
\* scenario ends there: it is the last command run, after a failed write copy the
\* read copy is never run, and no result is returned.
C18_CopyFailureIsFatal ==
    /\ \A k \in 1 .. Len(commands) :
          commands[k][3] # 0 =>
              /\ k = Len(commands)
              /\ pc = "failed"
              /\ error = "batch"
    /\ error = "batch" =>
          /\ pc = "failed"
          /\ result = "none"
          /\ commands # <<>>
          /\ commands[Len(commands)][3] # 0
          /\ stderr \in Stderr
          /\ message = stderr
          /\ phase = "write" =>
                /\ \A k \in 1 .. Len(commands) : commands[k][1] # "-copyToLocal"
                /\ DownloadDir \notin fs
                /\ \A i \in Items : DownloadedFile(i) \notin fs

C18_Witness ==
    /\ error = "batch"
    /\ phase = "write"
    /\ num_files = MaxFiles
    /\ message = "Permission denied"

CopiesExpected ==
    CASE pc \in {"makedirs", "stage", "prepare"} -> 0
      [] phase = "write" /\ pc \in {"timer", "batch"} -> 0
      [] phase = "write" /\ pc = "stop" -> 1
      [] phase = "read" /\ pc \in {"download_dir", "timer", "batch"} -> 1
      [] OTHER -> 2

\* C20: test_files_local_copy runs the hdfs client exactly once in each timed
\* phase, -copyFromLocal in the write phase and -copyToLocal in the read phase,
\* whatever the item count and the parallelism, which is only the command's -t
\* value; no other scenario runs a copy command.
C20_OneCopyCommandPerPhase ==
    /\ kind # "hdfs" => commands = <<>>
    /\ Len(commands) <= 2
    /\ \A k \in 1 .. Len(commands) :
          /\ commands[k][1] = IF k = 1 THEN "-copyFromLocal" ELSE "-copyToLocal"
          /\ commands[k][2] = parallel_writes
    /\ (kind = "hdfs" /\ pc # "failed") => Len(commands) = CopiesExpected

C20_Witness ==
    /\ kind = "hdfs"
    /\ result = "speeds"
    /\ num_files = MaxFiles
    /\ parallel_writes = MaxPar
    /\ Len(commands) = 2

\* The subdirectories a staging of all the items needs: ceil(num_files / files_per_subdir).
SubdirsNeeded == (num_files + files_per_subdir - 1) \div files_per_subdir

\* The pre-creation loop of test_files_local_copy has run to its end.
Staged == pc \notin {"makedirs", "stage"} /\ error # "generation"

\* C21: test_files_local_copy stages item i in subdirectory i div files_per_subdir
\* (100): every staged item lies in a subdirectory that exists and is in the list
\* subdirs, no subdirectory holds more than files_per_subdir items, the list has
\* no entry twice, and once the loop is through the list has exactly
\* ceil(num_files / files_per_subdir) entries.
C21_ItemsStagedInBoundedSubdirs ==
    kind = "hdfs" =>
        /\ \A i \in Items :
              SrcFile(i) \in fs =>
                  /\ Parent(SrcFile(i)) = SubDir(i \div files_per_subdir)
                  /\ Parent(SrcFile(i)) \in fs
                  /\ Parent(SrcFile(i)) \in Range(subdirs)
        /\ \A d \in Range(subdirs) : Cardinality(Children(d, fs)) <= files_per_subdir
        /\ Cardinality(Range(subdirs)) = Len(subdirs)
        /\ Staged => Len(subdirs) = SubdirsNeeded

C21_Witness ==
    /\ kind = "hdfs"
    /\ pc = "prepare"
    /\ num_files = 2 * files_per_subdir + 1
    /\ Len(subdirs) = 3
    /\ Cardinality(Children(SubDir(1), fs)) = files_per_subdir
    /\ Children(SubDir(2), fs) = {SrcFile(2 * files_per_subdir)}

\* The megabytes a phase moves: item count x item size, the size being size_kb KB,
\* and size_gb GB in test_large_files.
TotalMegabytes ==
    IF kind = "large" THEN Whole(num_files * size * 1024) ELSE <<num_files * size, 1024>>

\* The time between the two readings of the clock around the write phase, and
\* around the read phase.
WriteElapsed == readings[2] - readings[1]
ReadElapsed == readings[4] - readings[3]

\* C22: the write speed and the read speed a scenario computes and returns are the
\* megabytes moved (item count x item size) divided by the elapsed time of their
\* own phase: the read phase's timer starts at a reading of its own, taken after
\* the write phase's last, and test_large_files, which computes GB/s and returns it
\* times 1024, returns the same MB/s.
C22_ThroughputOverOwnPhase ==
    /\ speed # <<>> =>
          /\ Len(readings) >= 2
          /\ WriteElapsed > 0
          /\ Same(IF kind = "large" THEN Times(speed, 1024) ELSE speed,
                  Over(TotalMegabytes, WriteElapsed))
    /\ read_speed # <<>> =>
          /\ speed # <<>>
          /\ Len(readings) = 4
          /\ readings[2] <= readings[3]
          /\ ReadElapsed > 0
          /\ Same(ReturnValue.write_speed_mbs, Over(TotalMegabytes, WriteElapsed))
          /\ Same(ReturnValue.read_speed_mbs, Over(TotalMegabytes, ReadElapsed))
    /\ result = "speeds" => read_speed # <<>>

C22_Witness ==
    /\ kind = "large"
    /\ result = "speeds"
    /\ num_files = 2
    /\ size = MaxSize
    /\ WriteElapsed = 2
    /\ readings[3] > readings[2]
    /\ ReadElapsed = 1

\* Once a run has raised, run_test_multiple_times is left without a return value:
\* the samples are those of the runs before it, one fewer than the calls made, no
\* aggregate exists, the test has no entry in results, and the process has exited.
FailedRunLeavesNoAggregate ==
    failed_at # <<0, 0>> =>
        /\ rpc = "exited"
        /\ exit_code = 1
        /\ aggregate = <<>>
        /\ Len(all_write_speeds) = calls - 1
        /\ Len(all_read_speeds) = calls - 1
        /\ failed_at \notin group_results
        /\ failed_at \notin all_results

\* Every sample is a speed a scenario returned, and an aggregate is over samples of
\* runs that all returned.
SamplesAreOfReturnedRuns ==
    /\ \A k \in 1 .. Len(all_write_speeds) : all_write_speeds[k] \in Speeds
    /\ \A k \in 1 .. Len(all_read_speeds) : all_read_speeds[k] \in Speeds
    /\ aggregate # <<>> =>
          /\ failed_at = <<0, 0>>
          /\ \A k \in 1 .. Len(aggregate[1].all_write_speeds) :
                aggregate[1].all_write_speeds[k] \in Speeds

\* The step in which a run raises appends nothing, computes and prints no average
\* and stores nothing.
FailureAddsNothing ==
    failed_at' # failed_at =>
        /\ rpc = "call"
        /\ UNCHANGED <<all_write_speeds, all_read_speeds, aggregate, group_results, all_results>>
        /\ "average" \in printed' => "average" \in printed

\* C23: a run that raises contributes no sample: the exception leaves
\* run_test_multiple_times, which returns no aggregate; nothing, zero or partial,
\* is appended to the sample lists for it, and no average is computed over samples
\* that include it.
C23_FailedRunIsNeverScored ==
    /\ [](FailedRunLeavesNoAggregate /\ SamplesAreOfReturnedRuns)
    /\ [][FailureAddsNothing]_vars

C23_Witness ==
    /\ failed_at # <<0, 0>>
    /\ runs = 3
    /\ calls = 3
    /\ Len(all_write_speeds) = 2
    /\ aggregate = <<>>

\* The destinations the write phase of a pooled scenario writes.
WrittenDestinations == {Destination(i) : i \in Items}

\* The destinations cleanup has tried to delete so far.
CleanupAttempts == {CleanupTarget(step[2]) : step \in {a \in attempted : a[1] = "dst"}}

\* C24: in test_small_files, test_large_files and test_files_s3 the write phase, the
\* read phase and cleanup address the same destination for every item, with the
\* same file name prefix. So once the write phase has succeeded every read is of an
\* item that was written and is there, every written item is the target of exactly
\* one read, and cleanup tries to delete written items only, all of them by the
\* end of its loop.
C24_OneDestinationPerItem ==
    kind # "hdfs" =>
        /\ \A i \in Items :
              /\ ReadTarget(i) = Destination(i)
              /\ CleanupTarget(i) = Destination(i)
        /\ ReadName = WriteName
        /\ CleanupName = WriteName
        /\ phase = "read" =>
              /\ \A i \in Items : ReadTarget(i) \in WrittenDestinations \cap fs
              /\ \A p \in WrittenDestinations : Cardinality({i \in Items : ReadTarget(i) = p}) = 1
        /\ \A i \in Items :
              (phase = "read" /\ futures[i] = "ok") => ReadTarget(i) \in fs
        /\ CleanupAttempts \subseteq WrittenDestinations
        /\ pc \in {"rm_root", "rm_src", "rm_temp", "return", "done"} =>
              CleanupAttempts = WrittenDestinations

C24_Witness ==
    /\ kind = "small"
    /\ num_files = MaxFiles
    /\ parallel_writes = MaxPar
    /\ result = "speeds"
    /\ CleanupAttempts = WrittenDestinations
    /\ ThreadDir(1) \notin fs

\* C25: a scenario deletes only what it created: the file or object of somebody
\* else that was in the target root, and the one in the staging root, before the
\* scenario started are there at every moment of it and after it, however it ends.
C25_ForeignFilesSurvive ==
    {ForeignInTarget, ForeignInStaging} \subseteq fs

\* C26: main() prints the summary and writes write_speeds.csv and read_speeds.csv
\* only when every scenario of every selected group has returned and its result is
\* in all_results; once a scenario has raised there is no summary and neither file,
\* whatever results were collected before, and the exit status is 1.
C26_ReportOnlyAfterAllGroups ==
    /\ ("summary" \in printed \/ csv_files # {}) =>
          /\ failed_at = <<0, 0>>
          /\ rpc = "exited"
          /\ group \notin Groups
          /\ all_results = Scheduled
    /\ failed_at # <<0, 0>> =>
          /\ rpc = "exited"
          /\ exit_code = 1
          /\ "summary" \notin printed
          /\ "complete" \notin printed
          /\ csv_files = {}
    /\ exit_code = 0 =>
          /\ "summary" \in printed
          /\ csv_files = {"write_speeds.csv", "read_speeds.csv"}

C26_Witness ==
    /\ failed_at = <<2, 2>>
    /\ all_results = {<<1, 1>>, <<1, 2>>}
    /\ group_results = {<<2, 1>>}
    /\ exit_code = 1
    /\ csv_files = {}
    /\ "summary" \notin printed

====
